---- MODULE Spec2Model ----
(***************************************************************************)
(* Model of the news page of i-ris-calendar: fetchNewsData (link           *)
(* discovery on the listing page) and fetchNewsContent (text extraction    *)
(* from one article page).                                                 *)
(*                                                                         *)
(* Strings are TLA+ strings; a character is a string of length 1.          *)
(* A parsed listing page is the sequence of its <a> elements in document   *)
(* order; a parsed article page is the sequence of its text-bearing        *)
(* elements in document order.                                             *)
(***************************************************************************)
EXTENDS Integers, Sequences, FiniteSets, TLC

VARIABLES pc, listing, foundLinks, links, i, newsItems, outstanding, fetchLog,
          resp, source, result

vars == <<pc, listing, foundLinks, links, i, newsItems, outstanding, fetchLog,
          resp, source, result>>

(***************************************************************************)
(* Program constants                                                       *)
(***************************************************************************)
MaxLinks == 5
MinTitleLen == 10
MaxContentLen == 1000

ListingUrl == "https://iris.dive2ent.com/news/"
Origin == "https://iris.dive2ent.com"
\* The literals of the source are Japanese text; each is written here as an
\* ASCII transliteration of the same literal (distinct literals stay distinct).
ContentErrorPlaceholder == "kontentsu no shutokuchuu ni eraa ga hassei shimashita"
ContentEmptyPlaceholder == "kontentsu wo shutoku dekimasen deshita"
FetchingPlaceholder == "kontentsu wo shutokuchuu..."
SentinelTitle == "eraa"
SentinelContent == "nyuusu no shutokuchuu ni eraa ga hassei shimashita. nettowaaku setsuzoku wo kakunin shite kudasai."

(***************************************************************************)
(* Bounds of the model                                                     *)
(***************************************************************************)
MaxAnchors == 6
MaxNodes == 2
PadLen == 1001

(***************************************************************************)
(* String primitives of the JavaScript runtime                             *)
(***************************************************************************)
CharAt(s, k) == SubSeq(s, k, k)

IsWhitespace(c) == c \in {" ", "\t", "\n", "\r"}

StartsWith(s, p) == Len(s) >= Len(p) /\ SubSeq(s, 1, Len(p)) = p

Includes(s, p) == \E k \in 1..(Len(s) - Len(p) + 1) : SubSeq(s, k, k + Len(p) - 1) = p

Substring(s, from, to) == SubSeq(s, from + 1, IF to < Len(s) THEN to ELSE Len(s))

RECURSIVE TrimStart(_)
TrimStart(s) ==
    IF s = "" THEN ""
    ELSE IF IsWhitespace(CharAt(s, 1)) THEN TrimStart(SubSeq(s, 2, Len(s)))
    ELSE s

RECURSIVE TrimEnd(_)
TrimEnd(s) ==
    IF s = "" THEN ""
    ELSE IF IsWhitespace(CharAt(s, Len(s))) THEN TrimEnd(SubSeq(s, 1, Len(s) - 1))
    ELSE s

Trim(s) == TrimEnd(TrimStart(s))

Truthy(s) == s # ""

\* index of the first non-whitespace character at or after k, Len(s)+1 if none
RECURSIVE SkipWhitespace(_, _)
SkipWhitespace(s, k) ==
    IF k > Len(s) \/ ~IsWhitespace(CharAt(s, k)) THEN k ELSE SkipWhitespace(s, k + 1)

\* index of the first character at or after k that is in the set cs, Len(s)+1 if none
IndexOfAny(s, cs, k) ==
    LET hits == {j \in k..Len(s) : CharAt(s, j) \in cs}
    IN IF hits = {} THEN Len(s) + 1 ELSE CHOOSE j \in hits : \A h \in hits : j <= h

\* s.replace(/\s+/g, ' ')
RECURSIVE ReplaceWhitespaceRuns(_, _)
ReplaceWhitespaceRuns(s, k) ==
    IF k > Len(s) THEN ""
    ELSE IF IsWhitespace(CharAt(s, k))
         THEN " " \o ReplaceWhitespaceRuns(s, SkipWhitespace(s, k))
         ELSE LET e == IndexOfAny(s, {" ", "\t", "\n", "\r"}, k)
              IN SubSeq(s, k, e - 1) \o ReplaceWhitespaceRuns(s, e)

\* the last index of a "\n" inside the whitespace run that starts at k, 0 if none
RECURSIVE LastNewlineInRun(_, _, _)
LastNewlineInRun(s, k, last) ==
    IF k > Len(s) \/ ~IsWhitespace(CharAt(s, k)) THEN last
    ELSE LastNewlineInRun(s, k + 1, IF CharAt(s, k) = "\n" THEN k ELSE last)

\* s.replace(/\n\s*\n/g, '\n')
RECURSIVE ReplaceBlankLines(_, _)
ReplaceBlankLines(s, k) ==
    IF k > Len(s) THEN ""
    ELSE IF CharAt(s, k) = "\n"
         THEN LET last == LastNewlineInRun(s, k + 1, 0)
              IN "\n" \o ReplaceBlankLines(s, IF last # 0 THEN last + 1 ELSE k + 1)
         ELSE LET e == IndexOfAny(s, {"\n"}, k)
              IN SubSeq(s, k, e - 1) \o ReplaceBlankLines(s, e)

RECURSIVE Repeat(_, _)
Repeat(s, n) ==
    IF n = 0 THEN ""
    ELSE LET h == Repeat(s, n \div 2)
         IN IF n % 2 = 0 THEN h \o h ELSE h \o h \o s

Min(a, b) == IF a < b THEN a ELSE b

(***************************************************************************)
(* fetch: a response is a transport error or an HTTP status with a body    *)
(***************************************************************************)
TransportError == [kind |-> "error", status |-> 0, html |-> <<>>]

HttpResponse(status, html) == [kind |-> "http", status |-> status, html |-> html]

\* response.ok
Ok(response) == response.kind = "http" /\ response.status \in 200..299

\* the try block is left by an exception: fetch rejected, or !response.ok
Throws(response) == response.kind = "error" \/ ~Ok(response)

(***************************************************************************)
(* fetchNewsContent                                                        *)
(* An element of an article page: the selectors of the cascade it matches  *)
(* and its own text.                                                       *)
(***************************************************************************)
selectors == <<"article", ".article-content", ".post-content", ".entry-content",
               "main", ".content", "#content">>

Element(matches, text) == [matches |-> matches, text |-> text]

RECURSIVE JoinText(_)
JoinText(elements) ==
    IF elements = <<>> THEN "" ELSE Head(elements).text \o JoinText(Tail(elements))

\* $(selector)
SelectElements(html, selector) == SelectSeq(html, LAMBDA e : selector \in e.matches)

\* $('body').text()
BodyText(html) == JoinText(html)

\* index of the selector at which the loop breaks, 0 when it runs to the end
RECURSIVE MatchedSelector(_, _)
MatchedSelector(html, k) ==
    IF k > Len(selectors) THEN 0
    ELSE IF Len(SelectElements(html, selectors[k])) > 0 THEN k
    ELSE MatchedSelector(html, k + 1)

\* the value of content after the selector loop
LoopContent(html) ==
    LET k == MatchedSelector(html, 1)
    IN IF k = 0 THEN "" ELSE Trim(JoinText(SelectElements(html, selectors[k])))

\* the value of content before the clean up, and where it was taken from
ContentSource(html) ==
    LET content == LoopContent(html)
    IN IF ~Truthy(content)
       THEN [matched |-> MatchedSelector(html, 1), fromBody |-> TRUE,
             text |-> Trim(BodyText(html))]
       ELSE [matched |-> MatchedSelector(html, 1), fromBody |-> FALSE, text |-> content]

\* variant: the clean up without the length limit
CleanUpNoLimit(content) ==
    ReplaceBlankLines(ReplaceWhitespaceRuns(content, 1), 1)

CleanUp(content) ==
    Substring(ReplaceBlankLines(ReplaceWhitespaceRuns(content, 1), 1), 0, MaxContentLen)

fetchNewsContent(response) ==
    IF Throws(response) THEN ContentErrorPlaceholder
    ELSE LET content == CleanUp(ContentSource(response.html).text)
         IN IF Truthy(content) THEN content ELSE ContentEmptyPlaceholder

(***************************************************************************)
(* fetchNewsData                                                           *)
(* An anchor of the listing page: its href attribute (<<>> when absent),   *)
(* its text, and the ancestors it is nested in.                            *)
(***************************************************************************)
linkSelectors == <<"a[href*=\"/news/\"]", ".news-item a", ".article-title a",
                   ".post-title a", "h2 a", "h3 a">>

Anchor(href, text, within) == [href |-> href, text |-> text, within |-> within]

\* link.attr('href') as a string tested for truthiness: undefined and '' are falsy
HrefTruthy(a) == Len(a.href) = 1 /\ Truthy(a.href[1])

AnchorMatches(a, selector) ==
    IF selector = linkSelectors[1]
    THEN Len(a.href) = 1 /\ Includes(a.href[1], "/news/")
    ELSE SubSeq(selector, 1, Len(selector) - 2) \in a.within

\* $(selector)
SelectAnchors(html, selector) == SelectSeq(html, LAMBDA a : AnchorMatches(a, selector))

\* variant: the cascade keeps going and the last matching selector wins
RECURSIVE LastMatchedLinkSelector(_, _)
LastMatchedLinkSelector(html, k) ==
    IF k > Len(linkSelectors) THEN 0
    ELSE LET later == LastMatchedLinkSelector(html, k + 1)
         IN IF later # 0 THEN later
            ELSE IF Len(SelectAnchors(html, linkSelectors[k])) > 0 THEN k ELSE 0

\* index of the link selector at which the loop breaks, 0 when foundLinks stays false
RECURSIVE MatchedLinkSelector(_, _)
MatchedLinkSelector(html, k) ==
    IF k > Len(linkSelectors) THEN 0
    ELSE IF Len(SelectAnchors(html, linkSelectors[k])) > 0 THEN k
    ELSE MatchedLinkSelector(html, k + 1)

\* links.slice(0, 5)
LimitedLinks(html) ==
    LET matched == SelectAnchors(html, linkSelectors[MatchedLinkSelector(html, 1)])
    IN SubSeq(matched, 1, Min(MaxLinks, Len(matched)))

\* variant: a root-relative href is not prefixed with the origin
ResolveUrlNoPrefix(href) == href

ResolveUrl(href) ==
    IF StartsWith(href, "/") THEN Origin \o href ELSE href

\* new Date().toLocaleDateString('ja-JP'); the clock is read as one fixed day
Today == "2025/6/1"

NewsItem(title, link, content) ==
    [title |-> title, link |-> link, content |-> content, date |-> Today]

\* if (href && title) on the matched path
Emits(a) == HrefTruthy(a) /\ Truthy(Trim(a.text))

\* if (href && title && title.length > 10) on the fallback path
FallbackEmits(a) == HrefTruthy(a) /\ Truthy(Trim(a.text)) /\ Len(Trim(a.text)) > MinTitleLen

RECURSIVE FallbackMap(_)
FallbackMap(anchors) ==
    IF anchors = <<>> THEN <<>>
    ELSE <<NewsItem(Trim(Head(anchors).text), ResolveUrl(Head(anchors).href[1]),
                    FetchingPlaceholder)>> \o FallbackMap(Tail(anchors))

\* variant: no "i >= 5" limit at all
FallbackItemsUnlimited(html) == FallbackMap(SelectSeq(html, FallbackEmits))

\* variant: the limit counts the emitted anchors instead of the visited ones
FallbackItemsFirstQualifying(html) ==
    LET qualifying == SelectSeq(html, FallbackEmits)
    IN FallbackMap(SubSeq(qualifying, 1, Min(MaxLinks, Len(qualifying))))

\* $('a').each(...) with "if (i >= 5) return false"
FallbackItems(html) ==
    FallbackMap(SelectSeq(SubSeq(html, 1, Min(MaxLinks, Len(html))), FallbackEmits))

SentinelItem == NewsItem(SentinelTitle, "", SentinelContent)

(***************************************************************************)
(* Inputs: the pages and responses the two fetches can receive             *)
(***************************************************************************)
RECURSIVE SeqsOfLen(_, _)
SeqsOfLen(S, n) ==
    IF n = 0 THEN {<<>>}
    ELSE {Append(q, x) : q \in SeqsOfLen(S, n - 1), x \in S}

SeqsUpTo(S, n) == UNION {SeqsOfLen(S, m) : m \in 0..n}

AnchorPool ==
    { Anchor(<<"/news/1">>, " IRIS News ", {}),
      Anchor(<<"https://example.com/news/2">>, "Live", {"h2"}),
      Anchor(<<"info/news/3">>, "Relative link text", {}),
      Anchor(<<"/news/4">>, " \n ", {".news-item"}),
      Anchor(<<>>, "Heading anchor", {".post-title", "h3"}),
      Anchor(<<"/item/5">>, "Item", {".news-item"}),
      Anchor(<<"post/6">>, "Post", {"h3"}),
      Anchor(<<"#top">>, "Top", {"h2"}),
      Anchor(<<"https://example.com/a/7">>, "\tArticle title\n", {".article-title"}),
      Anchor(<<"/about/us">>, " About the group ", {}),
      Anchor(<<"/">>, "Home", {}),
      Anchor(<<"">>, "Long text, empty href", {}) }

\* listing pages: up to MaxAnchors anchors of at most two kinds
ListingDocs ==
    UNION {SeqsUpTo(p, MaxAnchors) : p \in {q \in SUBSET AnchorPool : Cardinality(q) = 2}}

ElementPool ==
    { Element({"article"}, "long text with\n\n\nextra lines and   spaces"),
      Element({"article"}, ""),
      Element({".article-content"}, " \n\t "),
      Element({".post-content"}, "  post body\n"),
      Element({".entry-content"}, Repeat("x", PadLen)),
      Element({"main", ".content"}, "a \n \n b" \o Repeat("y", PadLen)),
      Element({".content"}, "c\r\n\r\nd"),
      Element({"#content"}, "id content"),
      Element({}, "page header "),
      Element({}, ""),
      Element({}, "\n\n") }

ArticleDocs == SeqsUpTo(ElementPool, MaxNodes)

FailedResponses == {TransportError, HttpResponse(404, <<>>), HttpResponse(500, <<>>)}

ListingResponses == FailedResponses \cup {HttpResponse(200, d) : d \in ListingDocs}

\* responses to the article fetches of one run of fetchNewsData
ArticleResponses ==
    { TransportError, HttpResponse(500, <<>>),
      HttpResponse(200, <<Element({"article"}, "long text with\n\n\nextra lines and   spaces")>>) }

\* responses to the fetch of fetchNewsContent called on its own
ContentResponses == FailedResponses \cup {HttpResponse(200, d) : d \in ArticleDocs}

ContentUrls == {"https://iris.dive2ent.com/news/1", "info/news/3"}

NoResponse == [kind |-> "none", status |-> 0, html |-> <<>>]
NoSource == [matched |-> 0, fromBody |-> FALSE, text |-> ""]

(***************************************************************************)
(* State machine                                                           *)
(***************************************************************************)
Issue(url) == Append(fetchLog, [url |-> url, outcome |-> "pending"])

Settle(response) ==
    [fetchLog EXCEPT ![Len(fetchLog)].outcome = IF Throws(response) THEN "failed" ELSE "ok"]

Init ==
    /\ pc = "start"
    /\ listing = <<>>
    /\ foundLinks = FALSE
    /\ links = <<>>
    /\ i = 0
    /\ newsItems = <<>>
    /\ outstanding = 0
    /\ fetchLog = <<>>
    /\ resp = NoResponse
    /\ source = NoSource
    /\ result = ""

\* fetchNewsData: await fetch('https://iris.dive2ent.com/news/', ...)
StartListingFetch ==
    /\ pc = "start"
    /\ pc' = "listingFetch"
    /\ outstanding' = outstanding + 1
    /\ fetchLog' = Issue(ListingUrl)
    /\ UNCHANGED <<listing, foundLinks, links, i, newsItems, resp, source, result>>

\* variant: the catch block returns an empty list
ListingFailedEmpty ==
    /\ pc = "listingFetch"
    /\ \E response \in ListingResponses :
        /\ Throws(response)
        /\ outstanding' = outstanding - 1
        /\ fetchLog' = Settle(response)
        /\ newsItems' = <<>>
        /\ pc' = "done"
        /\ UNCHANGED <<listing, foundLinks, links, i, resp, source, result>>

\* the listing fetch rejects or is not ok: the catch block returns the sentinel
ListingFailed ==
    /\ pc = "listingFetch"
    /\ \E response \in ListingResponses :
        /\ Throws(response)
        /\ outstanding' = outstanding - 1
        /\ fetchLog' = Settle(response)
        /\ newsItems' = <<SentinelItem>>
        /\ pc' = "done"
        /\ UNCHANGED <<listing, foundLinks, links, i, resp, source, result>>

\* the listing is loaded and a link selector matches: enter the per-link loop
ListingMatched ==
    /\ pc = "listingFetch"
    /\ \E response \in ListingResponses :
        /\ ~Throws(response)
        /\ MatchedLinkSelector(response.html, 1) # 0
        /\ outstanding' = outstanding - 1
        /\ fetchLog' = Settle(response)
        /\ listing' = response.html
        /\ foundLinks' = TRUE
        /\ links' = LimitedLinks(response.html)
        /\ i' = 0
        /\ newsItems' = <<>>
        /\ pc' = "loop"
        /\ UNCHANGED <<resp, source, result>>

\* the listing is loaded and no link selector matches: fallback, then return
ListingFallback ==
    /\ pc = "listingFetch"
    /\ \E response \in ListingResponses :
        /\ ~Throws(response)
        /\ MatchedLinkSelector(response.html, 1) = 0
        /\ outstanding' = outstanding - 1
        /\ fetchLog' = Settle(response)
        /\ listing' = response.html
        /\ foundLinks' = FALSE
        /\ newsItems' = FallbackItems(response.html)
        /\ pc' = "done"
        /\ UNCHANGED <<links, i, resp, source, result>>

\* one iteration of the per-link loop whose anchor fails "if (href && title)"
LoopSkip ==
    /\ pc = "loop"
    /\ i < Len(links)
    /\ ~Emits(links[i + 1])
    /\ i' = i + 1
    /\ UNCHANGED <<pc, listing, foundLinks, links, newsItems, outstanding, fetchLog,
                   resp, source, result>>

\* one iteration whose anchor passes: await fetchNewsContent(fullUrl)
LoopFetch ==
    /\ pc = "loop"
    /\ i < Len(links)
    /\ Emits(links[i + 1])
    /\ pc' = "articleFetch"
    /\ outstanding' = outstanding + 1
    /\ fetchLog' = Issue(ResolveUrl(links[i + 1].href[1]))
    /\ UNCHANGED <<listing, foundLinks, links, i, newsItems, resp, source, result>>

\* variant: a failed article fetch escapes to the catch block of fetchNewsData
ArticleResponseAbort ==
    /\ pc = "articleFetch"
    /\ \E response \in ArticleResponses :
        /\ outstanding' = outstanding - 1
        /\ fetchLog' = Settle(response)
        /\ newsItems' = IF Throws(response) THEN <<SentinelItem>>
                        ELSE Append(newsItems,
                                    NewsItem(Trim(links[i + 1].text),
                                             ResolveUrl(links[i + 1].href[1]),
                                             fetchNewsContent(response)))
        /\ i' = i + 1
        /\ pc' = IF Throws(response) THEN "done" ELSE "loop"
        /\ UNCHANGED <<listing, foundLinks, links, resp, source, result>>

\* variant: a failed article fetch is retried instead of resolved to the placeholder
ArticleResponseRetry ==
    /\ pc = "articleFetch"
    /\ \E response \in ArticleResponses :
        /\ outstanding' = outstanding - 1
        /\ fetchLog' = Settle(response)
        /\ newsItems' = IF Throws(response) /\ Len(fetchLog) <= MaxLinks THEN newsItems
                        ELSE Append(newsItems,
                                    NewsItem(Trim(links[i + 1].text),
                                             ResolveUrl(links[i + 1].href[1]),
                                             fetchNewsContent(response)))
        /\ i' = IF Throws(response) /\ Len(fetchLog) <= MaxLinks THEN i ELSE i + 1
        /\ pc' = "loop"
        /\ UNCHANGED <<listing, foundLinks, links, resp, source, result>>

\* fetchNewsContent resolves; the item is pushed and the loop goes on
ArticleResponse ==
    /\ pc = "articleFetch"
    /\ \E response \in ArticleResponses :
        /\ outstanding' = outstanding - 1
        /\ fetchLog' = Settle(response)
        /\ newsItems' = Append(newsItems,
                               NewsItem(Trim(links[i + 1].text), ResolveUrl(links[i + 1].href[1]),
                                        fetchNewsContent(response)))
        /\ i' = i + 1
        /\ pc' = "loop"
        /\ UNCHANGED <<listing, foundLinks, links, resp, source, result>>

\* the loop ends, break, "if (!foundLinks)" is skipped, return newsItems
LoopExit ==
    /\ pc = "loop"
    /\ i >= Len(links)
    /\ pc' = "done"
    /\ UNCHANGED <<listing, foundLinks, links, i, newsItems, outstanding, fetchLog,
                   resp, source, result>>

Next ==
    \/ StartListingFetch
    \/ ListingFailed
    \/ ListingMatched
    \/ ListingFallback
    \/ LoopSkip
    \/ LoopFetch
    \/ ArticleResponse
    \/ LoopExit

Spec == Init /\ [][Next]_vars

\* fetchNewsContent called on its own: await fetch(url, ...)
ContentFetch ==
    /\ pc = "start"
    /\ \E url \in ContentUrls :
        /\ pc' = "contentFetch"
        /\ outstanding' = outstanding + 1
        /\ fetchLog' = Issue(url)
    /\ UNCHANGED <<listing, foundLinks, links, i, newsItems, resp, source, result>>

\* the fetch settles and fetchNewsContent returns
ContentResponse ==
    /\ pc = "contentFetch"
    /\ \E response \in ContentResponses :
        /\ outstanding' = outstanding - 1
        /\ fetchLog' = Settle(response)
        /\ resp' = response
        /\ source' = IF Throws(response) THEN NoSource ELSE ContentSource(response.html)
        /\ result' = fetchNewsContent(response)
        /\ pc' = "contentDone"
        /\ UNCHANGED <<listing, foundLinks, links, i, newsItems>>

NextContent ==
    \/ ContentFetch
    \/ ContentResponse

SpecContent == Init /\ [][NextContent]_vars
(***************************************************************************)
(* Properties                                                              *)
(***************************************************************************)
IsAbsoluteUrl(u) == StartsWith(u, "http://") \/ StartsWith(u, "https://")

IsRootRelative(u) == StartsWith(u, "/")

\* the listing fetch of this run of fetchNewsData has settled with the given outcome
ListingSettled(outcome) ==
    /\ Len(fetchLog) >= 1
    /\ fetchLog[1].url = ListingUrl
    /\ fetchLog[1].outcome = outcome

Returned == pc = "done"

\* the anchors of the page that match a link selector, in document order
AnchorsOf(html, k) ==
    SelectSeq(html, LAMBDA a : AnchorMatches(a, linkSelectors[k]))

PatternMatches(html, k) == \E n \in 1..Len(html) : AnchorMatches(html[n], linkSelectors[k])

NoPatternMatches(html) == \A k \in 1..Len(linkSelectors) : ~PatternMatches(html, k)

FirstPattern(html) ==
    CHOOSE k \in 1..Len(linkSelectors) :
        PatternMatches(html, k) /\ \A j \in 1..(k - 1) : ~PatternMatches(html, j)

Prefix(q, n) == SubSeq(q, 1, Min(n, Len(q)))

HasTitleAndHref(a) == Len(a.href) = 1 /\ a.href[1] # "" /\ Trim(a.text) # ""

\* item k of the result was made from anchor a
MadeFrom(item, a) ==
    /\ item.title = Trim(a.text)
    /\ item.link = (IF IsRootRelative(a.href[1]) THEN Origin \o a.href[1] ELSE a.href[1])

ArticleFetches == SubSeq(fetchLog, 2, Len(fetchLog))

\* C1: when the listing fetch fails, fetchNewsData returns exactly one item with
\* title SentinelTitle, an empty link and non-empty content, and no article
\* fetch is issued.
C1_ListingFailureSentinel ==
    (Returned /\ ListingSettled("failed")) =>
        /\ Len(newsItems) = 1
        /\ newsItems[1].title = SentinelTitle
        /\ newsItems[1].link = ""
        /\ newsItems[1].content # ""
        /\ Len(fetchLog) = 1

C1_Witness == Returned /\ ListingSettled("failed") /\ outstanding = 0

\* C2: for every fetch outcome fetchNewsContent returns a string of 1..1000
\* characters or one of its two placeholders, never the empty string.
C2_ContentBounded ==
    pc = "contentDone" =>
        /\ result # ""
        /\ \/ Len(result) \in 1..MaxContentLen
           \/ result \in {ContentErrorPlaceholder, ContentEmptyPlaceholder}

\* a text longer than the limit was cut, and the limit was reached
C2_Witness ==
    /\ pc = "contentDone"
    /\ Ok(resp)
    /\ Len(source.text) > MaxContentLen
    /\ Len(result) = MaxContentLen

\* C3 as stated: a listing with an anchor matching the first pattern yields
\* 1..5 items, each with a non-empty title and an absolute link.
C3_Original ==
    (Returned /\ ListingSettled("ok") /\ PatternMatches(listing, 1)) =>
        /\ Len(newsItems) \in 1..MaxLinks
        /\ \A n \in 1..Len(newsItems) :
            newsItems[n].title # "" /\ IsAbsoluteUrl(newsItems[n].link)

\* C3 amended: a listing with an anchor matching the first pattern yields 0..5
\* items, one per anchor with a non-blank text among the first 5 matching
\* anchors; each item has a non-empty title and a non-empty link, which is the
\* href prefixed with the origin when the href is root-relative and the href
\* itself otherwise, hence absolute when the href is root-relative or absolute.
C3_Amended ==
    (Returned /\ ListingSettled("ok") /\ PatternMatches(listing, 1)) =>
        LET taken == SelectSeq(Prefix(AnchorsOf(listing, 1), MaxLinks),
                               LAMBDA a : Trim(a.text) # "")
        IN /\ Len(newsItems) \in 0..MaxLinks
           /\ Len(newsItems) = Len(taken)
           /\ \A n \in 1..Len(newsItems) :
                /\ newsItems[n].title # ""
                /\ newsItems[n].link # ""
                /\ MadeFrom(newsItems[n], taken[n])
                /\ (IsRootRelative(taken[n].href[1]) \/ IsAbsoluteUrl(taken[n].href[1]))
                     => IsAbsoluteUrl(newsItems[n].link)

\* five items from a page with more than five matching anchors, one of them
\* from a root-relative href
C3_Witness ==
    /\ Returned
    /\ ListingSettled("ok")
    /\ PatternMatches(listing, 1)
    /\ Len(AnchorsOf(listing, 1)) > MaxLinks
    /\ Len(newsItems) = MaxLinks
    /\ \E n \in 1..Len(newsItems) : StartsWith(newsItems[n].link, Origin \o "/")

\* C4: a failed article fetch gives that item the error placeholder as content;
\* the item keeps its title and resolved link, and the remaining candidates are
\* still processed: the result has one item per candidate and is no sentinel.
C4_ArticleFailureLocal ==
    (ListingSettled("ok") /\ foundLinks) =>
        LET candidates == SelectSeq(links, HasTitleAndHref)
        IN /\ \A n \in 1..Len(newsItems) :
                /\ MadeFrom(newsItems[n], candidates[n])
                /\ newsItems[n].link = ArticleFetches[n].url
                /\ ArticleFetches[n].outcome = "failed"
                     => newsItems[n].content = ContentErrorPlaceholder
           /\ Returned => Len(newsItems) = Len(candidates)

\* a failed article fetch was followed by a successful one
C4_Witness ==
    /\ Returned
    /\ foundLinks
    /\ \E n \in 1..(Len(newsItems) - 1) :
        /\ ArticleFetches[n].outcome = "failed"
        /\ newsItems[n].content = ContentErrorPlaceholder
        /\ ArticleFetches[n + 1].outcome = "ok"
        /\ newsItems[n + 1].content # ContentErrorPlaceholder

\* C5: when no link selector matches any anchor, fetchNewsData returns at most
\* 5 items, all with the fetching placeholder as content, and fetchNewsContent
\* is never called.
C5_FallbackNoContentFetch ==
    (ListingSettled("ok") /\ NoPatternMatches(listing)) =>
        /\ Len(newsItems) <= MaxLinks
        /\ \A n \in 1..Len(newsItems) : newsItems[n].content = FetchingPlaceholder
        /\ Len(fetchLog) = 1
        /\ pc \notin {"loop", "articleFetch"}

C5_Witness ==
    /\ Returned
    /\ ListingSettled("ok")
    /\ NoPatternMatches(listing)
    /\ Len(listing) > MaxLinks
    /\ Len(newsItems) = MaxLinks

\* anchors that qualify on the fallback path
Qualifies(a) == Len(a.href) = 1 /\ a.href[1] # "" /\ Len(Trim(a.text)) > MinTitleLen

\* C6 as stated: on the fallback path the items are the first 5 qualifying
\* anchors of the whole document, in document order.
C6_Original ==
    (Returned /\ ListingSettled("ok") /\ NoPatternMatches(listing)) =>
        LET expected == Prefix(SelectSeq(listing, Qualifies), MaxLinks)
        IN /\ Len(newsItems) = Len(expected)
           /\ \A n \in 1..Len(newsItems) : MadeFrom(newsItems[n], expected[n])

\* C6 amended: on the fallback path the items are the qualifying anchors among
\* the first 5 anchors of the document, in document order; a non-qualifying
\* anchor among the first 5 is not replaced by a later one.
C6_Amended ==
    (Returned /\ ListingSettled("ok") /\ NoPatternMatches(listing)) =>
        LET expected == SelectSeq(Prefix(listing, MaxLinks), Qualifies)
        IN /\ Len(newsItems) = Len(expected)
           /\ \A n \in 1..Len(newsItems) : MadeFrom(newsItems[n], expected[n])

\* a qualifying sixth anchor is left out although fewer than 5 were emitted
C6_Witness ==
    /\ Returned
    /\ ListingSettled("ok")
    /\ NoPatternMatches(listing)
    /\ Len(listing) > MaxLinks
    /\ Qualifies(listing[Len(listing)])
    /\ Len(newsItems) \in 1..(MaxLinks - 1)

SomeContentPatternMatches(html) ==
    \E k \in 1..Len(selectors), n \in 1..Len(html) : selectors[k] \in html[n].matches

FirstContentPattern(html) ==
    CHOOSE k \in 1..Len(selectors) :
        /\ \E n \in 1..Len(html) : selectors[k] \in html[n].matches
        /\ \A j \in 1..(k - 1) : \A n \in 1..Len(html) : selectors[j] \notin html[n].matches

\* what fetchNewsContent returns for a source text
Returns(text) ==
    LET cleaned == CleanUp(text)
    IN IF cleaned # "" THEN cleaned ELSE ContentEmptyPlaceholder

\* C7: the body text is the content source exactly when no content selector
\* matched an element; when one matched, the content is derived from the
\* trimmed text of the first matching selector's elements and the body is not
\* used.
C7_BodyOnlyWhenNoMatch ==
    (pc = "contentDone" /\ Ok(resp)) =>
        IF SomeContentPatternMatches(resp.html)
        THEN result =
                Returns(Trim(JoinText(SelectSeq(resp.html,
                    LAMBDA e : selectors[FirstContentPattern(resp.html)] \in e.matches))))
        ELSE result = Returns(Trim(BodyText(resp.html)))

\* C8: on the matched path every item comes from the first at most 5 anchors of
\* the first matching pattern, in document order; anchors without href or text
\* are skipped and not replaced; no later pattern and no fallback is consulted,
\* also when the result is empty.
C8_FirstMatchWins ==
    (ListingSettled("ok") /\ ~NoPatternMatches(listing)) =>
        LET firstFive == Prefix(AnchorsOf(listing, FirstPattern(listing)), MaxLinks)
            kept == SelectSeq(firstFive, HasTitleAndHref)
        IN /\ foundLinks
           /\ links = firstFive
           /\ Len(newsItems) <= Len(kept)
           /\ \A n \in 1..Len(newsItems) :
                /\ MadeFrom(newsItems[n], kept[n])
                /\ newsItems[n].content # FetchingPlaceholder
           /\ Returned => Len(newsItems) = Len(kept)

\* a later pattern is the first to match, all of its first 5 anchors are
\* skipped, and the result is empty although another anchor has href and text
C8_Witness ==
    /\ Returned
    /\ ListingSettled("ok")
    /\ ~NoPatternMatches(listing)
    /\ FirstPattern(listing) > 1
    /\ Len(listing) > MaxLinks
    /\ \E n \in 1..Len(listing) : HasTitleAndHref(listing[n])
    /\ newsItems = <<>>

\* C9: at most one fetch is outstanding; the listing fetch settles before any
\* article fetch; article fetches are issued one at a time, in the order of the
\* emitted items, one per item, never repeated after a failure, at most 5.
C9_SequentialFetches ==
    /\ outstanding \in {0, 1}
    /\ outstanding = Cardinality({n \in 1..Len(fetchLog) : fetchLog[n].outcome = "pending"})
    /\ \A n \in 1..(Len(fetchLog) - 1) : fetchLog[n].outcome # "pending"
    /\ Len(fetchLog) >= 1 => fetchLog[1].url = ListingUrl
    /\ Len(fetchLog) >= 2 => fetchLog[1].outcome = "ok"
    /\ Len(ArticleFetches) <= MaxLinks
    /\ foundLinks =>
        /\ Len(ArticleFetches) = Len(newsItems) + (IF pc = "articleFetch" THEN 1 ELSE 0)
        /\ \A n \in 1..Len(newsItems) : ArticleFetches[n].url = newsItems[n].link
        /\ Len(ArticleFetches) <= Len(SelectSeq(links, HasTitleAndHref))

\* five article fetches, one of them failed, behind a skipped anchor
C9_Witness ==
    /\ Returned
    /\ Len(ArticleFetches) = MaxLinks - 1
    /\ Len(links) = MaxLinks
    /\ \E n \in 1..Len(ArticleFetches) : ArticleFetches[n].outcome = "failed"

HasBlankLineRun(s) ==
    \E k \in 1..Len(s) : CharAt(s, k) = "\n" /\ LastNewlineInRun(s, k + 1, 0) # 0

\* C10: the clean up collapses whitespace runs to one space and blank-line runs
\* to one newline, then truncates to 1000 characters; a source text with a
\* blank-line run yields output in which the run is a single newline.
C10_BlankLinesBecomeNewline ==
    (pc = "contentDone" /\ Ok(resp) /\ Len(source.text) <= MaxContentLen
        /\ HasBlankLineRun(source.text)) =>
            /\ Includes(result, "\n")
            /\ ~HasBlankLineRun(result)
====
